---- MODULE Spec2Model ----
(***************************************************************************)
(* State-machine model of runtime::ThreadPool (src/src/thread_pool.cpp),   *)
(* its per-worker WorkStealingQueue (src/src/work_stealing_queue.cpp) and  *)
(* the TaskGuard / wait() quiescence protocol.                             *)
(*                                                                         *)
(* Threads are the ThreadCount workers (0 .. ThreadCount-1) and one        *)
(* external client thread that submits, waits and finally destroys the     *)
(* pool.  Running tasks may themselves call submit (nested submission).    *)
(* Every atomic access and every mutex-protected queue operation is one    *)
(* step.                                                                   *)
(***************************************************************************)
EXTENDS Integers, Sequences, FiniteSets, TLC

\* ---------------------------------------------------------------- bounds
ThreadCount == 2
StealAttempts == 2
MaxQueueTasks == 1
MaxTasks == 3
\* Depth at which the self-recursion of the submit template is cut off.
MaxRecursion == 3
\* Largest options.threads and options.steal_attempts given to the
\* constructor.
MaxCtorThreads == 4
MaxCtorSteal == 3
\* Number of shutdown() calls the client may make.
MaxShutdowns == 2
MaxSweep == 6
MaxIndex == 4
MaxChunk == 2
MaxInit == 1

\* ------------------------------------------------------------- constants
Workers == 0 .. (ThreadCount - 1)
Client == ThreadCount
\* A second external thread that shares the pool with the client.
Other == ThreadCount + 1
Threads == 0 .. (ThreadCount + 1)
TaskIds == 1 .. MaxTasks
\* A default-constructed or emptied std::function<void()>.
Empty == 0
Policies == {"Random", "RoundRobin"}

\* The mutexes of the pool: mutex_ of each worker deque, mutex_ of
\* global_queue_, and completion_mutex_.
DequeLock(i) == <<"deque", i>>
GlobalLock == <<"global", 0>>
CompletionMutex == <<"completion", 0>>
NoLock == <<"none", 0>>
Locks == {DequeLock(i) : i \in Workers} \cup {GlobalLock, CompletionMutex}
\* The owner of an unlocked mutex.
NoThread == -1

VARIABLES
    stop,        \* stop_
    active,      \* active_tasks_
    deque,       \* work_queues_[i]->deque_
    global,      \* global_queue_.deque_
    policy,      \* steal_policy_
    wpc,         \* position of each worker in ThreadPool::worker
    wtask,       \* the local `Task task` of each worker
    attempt,     \* the steal loop's `attempt` of each worker
    spc,         \* position of each thread inside ThreadPool::submit
    stask,       \* identity of the task a thread is submitting
    sslot,       \* state of submit's parameter `task` (callable or emptied)
    cpc,         \* position of the client thread
    joinIdx,     \* index of the thread the destructor is joining
    nextId,      \* next fresh task identity
    rejected,    \* tasks whose submit threw "shutting down"
    execCount,   \* how many times each task's callable was invoked
    raised,      \* tasks whose callable raised a failure
    inner,       \* tasks submitted from inside a running task
    acceptedAtStop, \* tasks accepted when the destructor set stop_
    activeAtStop,   \* value of active_tasks_ when the destructor set stop_
    waitSnap,    \* tasks accepted when the current/last wait() was called
    fdepth,      \* nesting depth of the future-returning submit template
    promised,    \* callables for which a future was taken (line 88)
    aborted,     \* tasks whose submit failed with an error after line 68
    mark,        \* nextId when the last wait() returned (0: none returned)
    joinCount,   \* how many times each worker thread has been joined
    shutdowns,   \* number of shutdown() calls begun
    ctorPc,      \* position inside ThreadPool::ThreadPool
    optThreads,  \* options.threads
    optSteal,    \* options.steal_attempts
    nQueues,     \* work_queues_.size()
    started,     \* threads_: the index bound to each started worker thread
    stats,       \* the RuntimeStats counters
    gPushed,     \* identities of the tasks pushed to global_queue_, in order
    gIds,        \* identities of the entries of global_queue_, front first
    gTaken,      \* identities of the tasks taken from global_queue_, in order
    dq,          \* deque_ of one WorkStealingQueue used on its own
    qNext,       \* next task to be pushed on dq
    qOp,         \* the last operation on dq and what it returned
    qGone,       \* tasks that try_pop / try_steal have returned from dq
    rrWorker,    \* index i of the worker making a steal sweep
    rrVictims,   \* victims computed for attempts 1, 2, ... of that sweep
    lockOwner,   \* the thread that holds each mutex of the pool
    lpc,         \* each thread's position relative to the mutexes
    pf           \* the parallel_for / parallel_reduce call of the client

vars == <<stop, active, deque, global, policy, wpc, wtask, attempt, spc, stask,
          sslot, cpc, joinIdx, nextId, rejected, execCount, raised, inner,
          acceptedAtStop, activeAtStop, waitSnap, fdepth, promised, aborted, mark,
          joinCount, shutdowns, ctorPc, optThreads, optSteal, nQueues, started,
          stats, gPushed, gIds, gTaken, dq, qNext, qOp, qGone, rrWorker,
          rrVictims, lockOwner, lpc, pf>>

poolVars == <<stop, active, deque, global, policy>>
workerVars == <<wpc, wtask, attempt>>
submitVars == <<spc, stask, sslot>>
clientVars == <<cpc, joinIdx>>
ghostVars == <<nextId, rejected, execCount, raised, inner, acceptedAtStop,
               activeAtStop, waitSnap>>
ctorVars == <<ctorPc, optThreads, optSteal, nQueues, started>>
logVars == <<gPushed, gIds, gTaken>>
queueVars == <<dq, qNext, qOp, qGone>>
rrVars == <<rrWorker, rrVictims>>
lockVars == <<lockOwner, lpc>>
auxVars == <<stats, logVars, queueVars, rrVars, lockVars, pf>>
extVars == <<fdepth, promised, aborted, mark, joinCount, shutdowns, ctorVars,
             auxVars>>
\* Everything that is used only after the constructor has returned.
usedVars == <<poolVars, workerVars, submitVars, clientVars, ghostVars, fdepth,
              promised, aborted, mark, joinCount, shutdowns, auxVars>>

\* ------------------------------------------------- WorkStealingQueue
\* Mutation: the capacity test is off by one (`>` for `>=`).
TryPushAccepts_OffByOne(q, cap) == ~(Len(q) > cap)

\* try_push: `if (deque_.size() >= max_queue_size) return false;`
TryPushAccepts(q, cap) == ~(Len(q) >= cap)

\* push / try_push: deque_.push_back
PushBack(q, t) == Append(q, t)

\* Mutation: try_pop reads the front of the deque.
Back_Front(q) == q[1]

\* try_pop: deque_.back() / pop_back
Back(q) == q[Len(q)]
PopBack(q) == SubSeq(q, 1, Len(q) - 1)

\* Mutation: try_steal reads the back of the deque.
Front_Back(q) == q[Len(q)]

\* try_steal: deque_.front() / pop_front
Front(q) == q[1]
PopFront(q) == SubSeq(q, 2, Len(q))

\* The caller's `task` after `try_push(std::move(task), ...)`: the parameter
\* is taken by value, so the callable is move-constructed into it before the
\* size test.  A moved-from std::function is in a valid but unspecified
\* state: emptied (libstdc++, MSVC) or still holding the callable (libc++
\* small-buffer clone).
MovedFrom(t) == {t, Empty}

\* ------------------------------------------------------- ThreadPool
\* Mutation: submit does not look at the shutdown flag.
ShuttingDown_Ignored(s) == FALSE

\* submit: `if (stop_.load(acquire)) throw runtime_error`
ShuttingDown(s) == s

\* The overload of ThreadPool::submit that a call with one argument selects.
\* For an argument of type Task both overloads are exact matches and the
\* non-template `void submit(Task)` wins; for a closure the template
\* `submit(F&&, Args&&...)` binds it by reference (identity conversion)
\* while `submit(Task)` needs the user-defined conversion to std::function,
\* so the template is the better match.
SubmitOverload(arg) == IF arg = "Task" THEN "plain" ELSE "template"

\* get_random_thread: uniform in [0, thread_count_ - 1]
GetRandomThread == 0 .. (optThreads - 1)

\* Mutation: the sweep starts at the worker itself.
GetNextVictim_FromSelf(i, a) ==
    IF policy = "Random" THEN GetRandomThread ELSE {(i + a - 1) % optThreads}

\* get_next_victim
GetNextVictim(i, a) ==
    IF policy = "Random" THEN GetRandomThread ELSE {(i + a) % optThreads}

\* Mutation: the steal loop runs one iteration more than steal_attempts_.
MoreAttempts_Extra(a) == a + 1 <= StealAttempts + 1

\* worker: `++attempt` then `attempt <= steal_attempts_`, the loop condition
\* of line 102 evaluated after the failed attempt a.
MoreAttempts(a) == a + 1 <= StealAttempts

\* Mutation: the exit check tests the counter against one instead of zero.
ExitCondition_WrongCount(s, a) == s /\ a = 1

\* worker: `stop_.load(acquire) && active_tasks_.load(acquire) == 0`
ExitCondition(s, a) == s /\ a = 0

\* Mutation: wait() is satisfied when one task is still counted.
WaitPredicate_AtMostOne(a) == a <= 1

\* wait: the predicate of cv_completion_.wait
WaitPredicate(a) == a = 0

\* Positions of a worker whose running task is inside wait().
InTaskWait == {"tw_check", "tw_block", "tw_blocked"}

\* TaskGuard::~TaskGuard: `if (prev == 1) cv.notify_all()`
GuardNotifies(prev) == prev = 1

\* Mutation: the guard's destructor leaves the counter alone.
FetchSub_Skipped(c) == c

\* TaskGuard::~TaskGuard: counter.fetch_sub(1)
FetchSub(c) == c - 1

\* Mutation: the guard rolls back whether or not the enqueue committed.
SubmitGuardDtor_Always(committed, c) == FetchSub(c)

\* SubmitGuard::~SubmitGuard: `if (!committed) counter.fetch_sub(1)`
SubmitGuardDtor(committed, c) == IF committed THEN c ELSE FetchSub(c)

\* Mutation: the validation lets steal_attempts == 0 through.
ConfigInvalid_MissesZero(t, s) == t = 0 \/ s < 0

\* ThreadPool::ThreadPool: `thread_count_ == 0` and `steal_attempts_ <= 0`
\* each throw std::invalid_argument.
ConfigInvalid(t, s) == t = 0 \/ s <= 0

\* The members of a pool whose construction has not failed, and the
\* bookkeeping of the model, before the first call is made.
PoolInit ==
    /\ stop = FALSE
    /\ active = 0
    /\ deque = [i \in Workers |-> <<>>]
    /\ global = <<>>
    /\ policy \in Policies
    /\ wtask = [w \in Workers |-> Empty]
    /\ attempt = [w \in Workers |-> 0]
    /\ spc = [th \in Threads |-> "none"]
    /\ stask = [th \in Threads |-> 0]
    /\ sslot = [th \in Threads |-> Empty]
    /\ cpc = "idle"
    /\ joinIdx = 0
    /\ nextId = 1
    /\ rejected = {}
    /\ execCount = [t \in TaskIds |-> 0]
    /\ raised = {}
    /\ inner = {}
    /\ acceptedAtStop = {}
    /\ activeAtStop = 0
    /\ waitSnap = {}
    /\ fdepth = 0
    /\ promised = {}
    /\ aborted = {}
    /\ mark = 0
    /\ joinCount = [w \in Workers |-> 0]
    /\ shutdowns = 0
    /\ stats = [tasks_submitted |-> 0, tasks_executed |-> 0]
    /\ pf = [pc |-> "none", alg |-> "for", start |-> 0, end |-> 0,
             chunk |-> 1, init |-> 0, op |-> "plus", inl |-> FALSE,
             got |-> 0, acc |-> 0]
    /\ gPushed = <<>>
    /\ gIds = <<>>
    /\ gTaken = <<>>
    /\ dq = <<>>
    /\ qNext = 1
    /\ qOp = [op |-> "none", ret |-> Empty]
    /\ qGone = {}
    /\ rrVictims = <<>>
    /\ lockOwner = [l \in Locks |-> NoThread]
    /\ lpc = [th \in Threads |->
                [op |-> "none", st |-> "out", lock |-> NoLock, a |-> 0]]

\* The state after the constructor has returned for threads = ThreadCount
\* and steal_attempts = StealAttempts.
Init ==
    /\ PoolInit
    /\ wpc = [w \in Workers |-> "pop"]
    /\ ctorPc = "constructed"
    /\ optThreads = ThreadCount
    /\ optSteal = StealAttempts
    /\ nQueues = ThreadCount
    /\ started = [k \in 1 .. ThreadCount |-> k - 1]
    /\ rrWorker = 0

\* ------------------------------------------------- derived task status
\* A submit call for t is in progress.
Submitting(t) ==
    \E th \in Threads :
        stask[th] = t /\ (spc[th] # "none" \/ (th = Client /\ fdepth > 0))

\* Tasks whose submit call has returned normally.
Accepted ==
    {t \in TaskIds :
        t < nextId /\ t \notin rejected /\ t \notin aborted /\ ~Submitting(t)}

\* The callable of t has been invoked and has not yet returned or raised.
Executing(t) ==
    \E w \in Workers : wtask[w] = t /\ wpc[w] \in {"fin", "nested"} \cup InTaskWait

\* The callable of t has been invoked and has returned or raised.
Finished(t) == execCount[t] >= 1 /\ ~Executing(t)

\* t sits in a slot of a worker deque or of the global queue.
Queued(t) ==
    \/ \E i \in Workers : \E k \in 1 .. Len(deque[i]) : deque[i][k] = t
    \/ \E k \in 1 .. Len(global) : global[k] = t

\* t has been dequeued into a worker's local `task`.
Held(t) == \E w \in Workers : wtask[w] = t

\* completion_mutex_ is held by a waiter from the evaluation of the
\* predicate until cv.wait releases it; th can lock it when no other thread
\* is in between.
CompletionMutexFree(th) ==
    /\ th # Client => cpc # "w_block"
    /\ \A w \in Workers \ {th} : wpc[w] # "tw_block"

\* The state after the constructor has returned for threads = 1: one deque,
\* one worker thread (index 0); no thread exists for the other indices.
SingleInit ==
    /\ PoolInit
    /\ wpc = [w \in Workers |-> IF w = 0 THEN "pop" ELSE "none"]
    /\ ctorPc = "constructed"
    /\ optThreads = 1
    /\ optSteal = StealAttempts
    /\ nQueues = 1
    /\ started = <<0>>
    /\ rrWorker = 0

\* ------------------------------------------- ThreadPool::ThreadPool
\* The constructor is entered with some options; the member initialisers
\* have run, no deque exists and no thread has been started.
CtorInit ==
    /\ PoolInit
    /\ wpc = [w \in Workers |-> "none"]
    /\ ctorPc = "validate"
    /\ optThreads \in 0 .. MaxCtorThreads
    /\ optSteal \in (-1) .. MaxCtorSteal
    /\ nQueues = 0
    /\ started = <<>>
    /\ rrWorker = 0

\* Lines 19-24: the two validation tests.
CtorValidate ==
    /\ ctorPc = "validate"
    /\ IF ConfigInvalid(optThreads, optSteal)
       THEN ctorPc' = "failed"
       ELSE ctorPc' = "queues"
    /\ UNCHANGED <<optThreads, optSteal, nQueues, started>>
    /\ UNCHANGED usedVars

\* Lines 25-28: one iteration of the loop that creates the deques.
CtorMakeQueue ==
    /\ ctorPc = "queues"
    /\ IF nQueues < optThreads
       THEN /\ nQueues' = nQueues + 1
            /\ UNCHANGED ctorPc
       ELSE /\ ctorPc' = "threads"
            /\ UNCHANGED nQueues
    /\ UNCHANGED <<optThreads, optSteal, started>>
    /\ UNCHANGED usedVars

\* Lines 30-34: one iteration of the loop that starts worker(i) on a new
\* thread.
CtorStartThread ==
    /\ ctorPc = "threads"
    /\ IF Len(started) < optThreads
       THEN /\ started' = Append(started, Len(started))
            /\ UNCHANGED ctorPc
       ELSE /\ ctorPc' = "constructed"
            /\ UNCHANGED started
    /\ UNCHANGED <<optThreads, optSteal, nQueues>>
    /\ UNCHANGED usedVars

CtorNext ==
    \/ CtorValidate
    \/ CtorMakeQueue
    \/ CtorStartThread

CtorSpec == CtorInit /\ [][CtorNext]_vars

\* ------------------------------------------------ ThreadPool::submit
\* The caller resumes after submit returned normally.
SubmitReturn(th) ==
    /\ spc' = [spc EXCEPT ![th] = "none"]
    /\ IF th = Client
       THEN /\ cpc' = "idle"
            /\ UNCHANGED wpc
       ELSE IF th \in Workers
       THEN /\ wpc' = [wpc EXCEPT ![th] = "fin"]
            /\ UNCHANGED cpc
       ELSE UNCHANGED <<cpc, wpc>>

\* Lines 53-55: the shutdown check.  A rejection throws; inside a task the
\* exception unwinds the callable and is caught by execute_task.
SubmitCheck(th) ==
    /\ spc[th] = "check"
    /\ IF ShuttingDown(stop)
       THEN /\ spc' = [spc EXCEPT ![th] = "none"]
            /\ rejected' = rejected \cup {stask[th]}
            /\ IF th = Client
               THEN /\ cpc' = "idle"
                    /\ UNCHANGED <<wpc, raised>>
               ELSE IF th \in Workers
               THEN /\ wpc' = [wpc EXCEPT ![th] = "guard"]
                    /\ raised' = raised \cup {wtask[th]}
                    /\ UNCHANGED cpc
               ELSE UNCHANGED <<cpc, wpc, raised>>
       ELSE /\ spc' = [spc EXCEPT ![th] = "inc"]
            /\ UNCHANGED <<rejected, cpc, wpc, raised>>
    /\ UNCHANGED <<poolVars, wtask, attempt, stask, sslot, joinIdx, nextId,
                   execCount, inner, acceptedAtStop, activeAtStop, waitSnap>>
    /\ UNCHANGED extVars

\* Line 68: active_tasks_.fetch_add(1)
SubmitInc(th) ==
    /\ spc[th] = "inc"
    /\ active' = active + 1
    /\ spc' = [spc EXCEPT ![th] = "push"]
    /\ UNCHANGED <<stop, deque, global, policy, workerVars, stask, sslot,
                   clientVars, ghostVars>>
    /\ UNCHANGED extVars

\* Lines 73-78: pick a random deque and try_push the task into it.
SubmitPush(th) ==
    /\ spc[th] = "push"
    /\ \E idx \in GetRandomThread :
         IF TryPushAccepts(deque[idx], MaxQueueTasks)
         THEN /\ deque' = [deque EXCEPT ![idx] = PushBack(@, sslot[th])]
              /\ active' = SubmitGuardDtor(TRUE, active)
              /\ SubmitReturn(th)
              /\ UNCHANGED sslot
         ELSE /\ \E s \in MovedFrom(sslot[th]) :
                    sslot' = [sslot EXCEPT ![th] = s]
              /\ spc' = [spc EXCEPT ![th] = "gpush"]
              /\ UNCHANGED <<deque, active, cpc, wpc>>
    /\ UNCHANGED <<stop, global, policy, wtask, attempt, stask,
                   joinIdx, ghostVars>>
    /\ UNCHANGED extVars

\* Lines 80-82: global_queue_.push(std::move(task))
SubmitGlobal(th) ==
    /\ spc[th] = "gpush"
    /\ global' = PushBack(global, sslot[th])
    /\ active' = SubmitGuardDtor(TRUE, active)
    /\ SubmitReturn(th)
    /\ UNCHANGED <<stop, deque, policy, wtask, attempt, stask, sslot,
                   joinIdx, ghostVars>>
    /\ UNCHANGED extVars

\* Lines 73-80 raise an error: std::random_device in get_random_thread, the
\* queue's mutex lock or the deque's allocation in try_push / push throws
\* before anything was enqueued.  The SubmitGuard, not committed, is
\* destroyed while the exception unwinds submit; inside a task the exception
\* then unwinds the callable and is caught by execute_task.
SubmitFail(th) ==
    /\ spc[th] \in {"push", "gpush"}
    /\ active' = SubmitGuardDtor(FALSE, active)
    /\ aborted' = aborted \cup {stask[th]}
    /\ spc' = [spc EXCEPT ![th] = "none"]
    /\ IF th = Client
       THEN /\ cpc' = "idle"
            /\ UNCHANGED <<wpc, raised>>
       ELSE IF th \in Workers
       THEN /\ wpc' = [wpc EXCEPT ![th] = "guard"]
            /\ raised' = raised \cup {wtask[th]}
            /\ UNCHANGED cpc
       ELSE UNCHANGED <<cpc, wpc, raised>>
    /\ UNCHANGED <<stop, deque, global, policy, wtask, attempt, stask, sslot,
                   joinIdx, nextId, rejected, execCount, inner, acceptedAtStop,
                   activeAtStop, waitSnap>>
    /\ UNCHANGED <<fdepth, promised, mark, joinCount, shutdowns, ctorVars, auxVars>>

\* ------------------------------------------------ ThreadPool::worker
\* Line 90: work_queues_[idx]->try_pop(task)
WorkerPop(w) ==
    /\ wpc[w] = "pop"
    /\ IF deque[w] # <<>>
       THEN /\ wtask' = [wtask EXCEPT ![w] = Back(deque[w])]
            /\ deque' = [deque EXCEPT ![w] = PopBack(@)]
            /\ wpc' = [wpc EXCEPT ![w] = "run"]
            /\ UNCHANGED attempt
       ELSE /\ wpc' = [wpc EXCEPT ![w] = "steal"]
            /\ attempt' = [attempt EXCEPT ![w] = 1]
            /\ UNCHANGED <<wtask, deque>>
    /\ UNCHANGED <<stop, active, global, policy, submitVars, clientVars,
                   ghostVars>>
    /\ UNCHANGED extVars

\* Lines 102-112: one iteration of the steal loop.
WorkerSteal(w) ==
    /\ wpc[w] = "steal"
    /\ \E v \in GetNextVictim(w, attempt[w]) :
         IF deque[v] # <<>>
         THEN /\ wtask' = [wtask EXCEPT ![w] = Front(deque[v])]
              /\ deque' = [deque EXCEPT ![v] = PopFront(@)]
              /\ wpc' = [wpc EXCEPT ![w] = "run"]
              /\ attempt' = [attempt EXCEPT ![w] = 0]
         ELSE /\ IF MoreAttempts(attempt[w])
                 THEN /\ attempt' = [attempt EXCEPT ![w] = @ + 1]
                      /\ UNCHANGED wpc
                 ELSE /\ wpc' = [wpc EXCEPT ![w] = "global"]
                      /\ attempt' = [attempt EXCEPT ![w] = 0]
              /\ UNCHANGED <<wtask, deque>>
    /\ UNCHANGED <<stop, active, global, policy, submitVars, clientVars,
                   ghostVars>>
    /\ UNCHANGED extVars

\* Line 117: global_queue_.try_steal(task)
WorkerGlobal(w) ==
    /\ wpc[w] = "global"
    /\ IF global # <<>>
       THEN /\ wtask' = [wtask EXCEPT ![w] = Front(global)]
            /\ global' = PopFront(global)
            /\ wpc' = [wpc EXCEPT ![w] = "run"]
       ELSE /\ wpc' = [wpc EXCEPT ![w] = "exitcheck"]
            /\ UNCHANGED <<wtask, global>>
    /\ UNCHANGED <<stop, active, deque, policy, attempt, submitVars,
                   clientVars, ghostVars>>
    /\ UNCHANGED extVars

\* Lines 126-128: the exit check.  stop_ never goes back to false, so the
\* two loads of the && are equivalent to one evaluation at the second load.
WorkerExitCheck(w) ==
    /\ wpc[w] = "exitcheck"
    /\ IF ExitCondition(stop, active)
       THEN wpc' = [wpc EXCEPT ![w] = "done"]
       ELSE wpc' = [wpc EXCEPT ![w] = "sleep"]
    /\ UNCHANGED <<poolVars, wtask, attempt, submitVars, clientVars, ghostVars>>
    /\ UNCHANGED extVars

\* Line 130: sleep_for(idle_sleep_), then the next pass.
WorkerSleep(w) ==
    /\ wpc[w] = "sleep"
    /\ wpc' = [wpc EXCEPT ![w] = "pop"]
    /\ UNCHANGED <<poolVars, wtask, attempt, submitVars, clientVars, ghostVars>>
    /\ UNCHANGED extVars

\* execute_task: `task()` is invoked.  An empty std::function throws
\* bad_function_call at once; a callable starts running and may submit one
\* task to its own pool before it completes.
TaskRun(w) ==
    /\ wpc[w] = "run"
    /\ IF wtask[w] = Empty
       THEN /\ wpc' = [wpc EXCEPT ![w] = "guard"]
            /\ UNCHANGED <<execCount, spc, stask, sslot, nextId, inner>>
       ELSE /\ execCount' = [execCount EXCEPT ![wtask[w]] = @ + 1]
            /\ \/ /\ wpc' = [wpc EXCEPT ![w] = "fin"]
                  /\ UNCHANGED <<spc, stask, sslot, nextId, inner>>
               \/ /\ nextId <= MaxTasks
                  /\ wpc' = [wpc EXCEPT ![w] = "nested"]
                  /\ spc' = [spc EXCEPT ![w] = "check"]
                  /\ stask' = [stask EXCEPT ![w] = nextId]
                  /\ sslot' = [sslot EXCEPT ![w] = nextId]
                  /\ inner' = inner \cup {nextId}
                  /\ nextId' = nextId + 1
    /\ UNCHANGED <<poolVars, wtask, attempt, clientVars, rejected, raised,
                   acceptedAtStop, activeAtStop, waitSnap>>
    /\ UNCHANGED extVars

\* execute_task, lines 149-158: the callable returns or raises; every
\* exception is caught and swallowed, so both leave the TaskGuard scope.
TaskFinish(w) ==
    /\ wpc[w] = "fin"
    /\ \E r \in BOOLEAN :
         raised' = IF r THEN raised \cup {wtask[w]} ELSE raised
    /\ wpc' = [wpc EXCEPT ![w] = "guard"]
    /\ UNCHANGED <<poolVars, wtask, attempt, submitVars, clientVars, nextId,
                   rejected, execCount, inner, acceptedAtStop, activeAtStop,
                   waitSnap>>
    /\ UNCHANGED extVars

\* TaskGuard::~TaskGuard: counter.fetch_sub(1)
TaskGuardDtor(w) ==
    /\ wpc[w] = "guard"
    /\ active' = FetchSub(active)
    /\ IF GuardNotifies(active)
       THEN wpc' = [wpc EXCEPT ![w] = "notify"]
       ELSE wpc' = [wpc EXCEPT ![w] = "pop"]
    /\ wtask' = [wtask EXCEPT ![w] = Empty]
    /\ UNCHANGED <<stop, deque, global, policy, attempt, submitVars,
                   clientVars, ghostVars>>
    /\ UNCHANGED extVars

\* TaskGuard::~TaskGuard: cv.notify_all(), done without completion_mutex_.
\* Every thread blocked in wait() is woken.
TaskNotify(w) ==
    /\ wpc[w] = "notify"
    /\ wpc' = [x \in Workers |->
                 IF x = w THEN "pop"
                 ELSE IF wpc[x] = "tw_blocked" THEN "tw_check" ELSE wpc[x]]
    /\ cpc' = IF cpc = "w_blocked" THEN "w_check" ELSE cpc
    /\ UNCHANGED <<poolVars, wtask, attempt, submitVars, joinIdx, ghostVars>>
    /\ UNCHANGED extVars

\* ------------------------------------------- wait() called by a task
\* The running callable calls wait() on its own pool.
TaskWait(w) ==
    /\ wpc[w] = "fin"
    /\ wpc' = [wpc EXCEPT ![w] = "tw_check"]
    /\ UNCHANGED <<poolVars, wtask, attempt, submitVars, clientVars, ghostVars,
                   extVars>>

\* wait(): the predicate is evaluated with the mutex held.
TaskWaitCheck(w) ==
    /\ wpc[w] = "tw_check"
    /\ CompletionMutexFree(w)
    /\ IF WaitPredicate(active)
       THEN wpc' = [wpc EXCEPT ![w] = "fin"]
       ELSE wpc' = [wpc EXCEPT ![w] = "tw_block"]
    /\ UNCHANGED <<poolVars, wtask, attempt, submitVars, clientVars, ghostVars,
                   extVars>>

\* cv.wait(lock): release the mutex and block, atomically.
TaskWaitBlock(w) ==
    /\ wpc[w] = "tw_block"
    /\ wpc' = [wpc EXCEPT ![w] = "tw_blocked"]
    /\ UNCHANGED <<poolVars, wtask, attempt, submitVars, clientVars, ghostVars,
                   extVars>>

\* A spurious wake-up of the task's wait.
TaskSpuriousWake(w) ==
    /\ wpc[w] = "tw_blocked"
    /\ wpc' = [wpc EXCEPT ![w] = "tw_check"]
    /\ UNCHANGED <<poolVars, wtask, attempt, submitVars, clientVars, ghostVars,
                   extVars>>

\* ------------------------------------------------------ client thread
\* The client calls submit with a fresh task.
ClientSubmit ==
    /\ cpc = "idle"
    /\ nextId <= MaxTasks
    /\ cpc' = "submit"
    /\ spc' = [spc EXCEPT ![Client] = "check"]
    /\ stask' = [stask EXCEPT ![Client] = nextId]
    /\ sslot' = [sslot EXCEPT ![Client] = nextId]
    /\ nextId' = nextId + 1
    /\ UNCHANGED <<poolVars, workerVars, joinIdx, rejected, execCount, raised,
                   inner, acceptedAtStop, activeAtStop, waitSnap>>
    /\ UNCHANGED extVars

\* The client calls the future-returning submit with a fresh callable:
\* lines 84-88 make the packaged_task and take its future.
ClientSubmitFuture ==
    /\ cpc = "idle"
    /\ nextId <= MaxTasks
    /\ cpc' = "fsubmit"
    /\ fdepth' = 1
    /\ promised' = promised \cup {nextId}
    /\ stask' = [stask EXCEPT ![Client] = nextId]
    /\ sslot' = [sslot EXCEPT ![Client] = nextId]
    /\ nextId' = nextId + 1
    /\ UNCHANGED <<poolVars, workerVars, spc, joinIdx, rejected, execCount,
                   raised, inner, acceptedAtStop, activeAtStop, waitSnap>>
    /\ UNCHANGED <<aborted, mark, joinCount, shutdowns, ctorVars, auxVars>>

\* Line 91: `submit([task]() { (*task)(); });`.  The argument is a closure.
\* When the call selects the template, a new activation of lines 78-95
\* begins, which makes its own packaged_task around the closure, takes its
\* future and arrives at line 91 again; when it selects submit(Task), the
\* wrapper enters the plain submit.
FutureDelegate ==
    /\ cpc = "fsubmit"
    /\ IF SubmitOverload("closure") = "template"
       THEN /\ fdepth < MaxRecursion
            /\ fdepth' = fdepth + 1
            /\ UNCHANGED <<cpc, spc>>
       ELSE /\ fdepth' = 0
            /\ cpc' = "submit"
            /\ spc' = [spc EXCEPT ![Client] = "check"]
    /\ UNCHANGED <<poolVars, workerVars, stask, sslot, joinIdx, ghostVars>>
    /\ UNCHANGED <<promised, aborted, mark, joinCount, shutdowns, ctorVars, auxVars>>

\* wait(): lock completion_mutex_ and enter cv_completion_.wait(lock, pred)
ClientWait ==
    /\ cpc = "idle"
    /\ cpc' = "w_check"
    /\ waitSnap' = Accepted
    /\ UNCHANGED <<poolVars, workerVars, submitVars, joinIdx, nextId, rejected,
                   execCount, raised, inner, acceptedAtStop, activeAtStop>>
    /\ UNCHANGED extVars

\* The predicate is evaluated with the mutex held; wait() returns when it
\* is true.
WaitCheck ==
    /\ cpc = "w_check"
    /\ CompletionMutexFree(Client)
    /\ IF WaitPredicate(active)
       THEN /\ cpc' = "idle"
            /\ waitSnap' = {}
       ELSE /\ cpc' = "w_block"
            /\ UNCHANGED waitSnap
    /\ UNCHANGED <<poolVars, workerVars, submitVars, joinIdx, nextId, rejected,
                   execCount, raised, inner, acceptedAtStop, activeAtStop>>
    /\ UNCHANGED extVars

\* WaitCheck, recording in `mark` how many tasks had been submitted when
\* wait() returned.
WaitCheckMarked ==
    /\ cpc = "w_check"
    /\ CompletionMutexFree(Client)
    /\ IF WaitPredicate(active)
       THEN /\ cpc' = "idle"
            /\ waitSnap' = {}
            /\ mark' = nextId
       ELSE /\ cpc' = "w_block"
            /\ UNCHANGED <<waitSnap, mark>>
    /\ UNCHANGED <<poolVars, workerVars, submitVars, joinIdx, nextId, rejected,
                   execCount, raised, inner, acceptedAtStop, activeAtStop>>
    /\ UNCHANGED <<fdepth, promised, aborted, joinCount, shutdowns, ctorVars, auxVars>>

\* cv.wait(lock): release the mutex and block, atomically.
WaitBlock ==
    /\ cpc = "w_block"
    /\ cpc' = "w_blocked"
    /\ UNCHANGED <<poolVars, workerVars, submitVars, joinIdx, ghostVars>>
    /\ UNCHANGED extVars

\* A condition variable may wake spuriously; the predicate is re-evaluated.
SpuriousWake ==
    /\ cpc = "w_blocked"
    /\ cpc' = "w_check"
    /\ UNCHANGED <<poolVars, workerVars, submitVars, joinIdx, ghostVars>>
    /\ UNCHANGED extVars

\* ~ThreadPool: stop_.store(true)
Destroy ==
    /\ cpc = "idle"
    /\ stop' = TRUE
    /\ cpc' = "join"
    /\ joinIdx' = 0
    /\ acceptedAtStop' = Accepted
    /\ activeAtStop' = active
    /\ UNCHANGED <<active, deque, global, policy, workerVars, submitVars,
                   nextId, rejected, execCount, raised, inner, waitSnap>>
    /\ UNCHANGED extVars

\* Mutation: the destructor clears the flag again once the last worker has
\* been joined.
Join_ResetsStop ==
    /\ cpc = "join"
    /\ wpc[joinIdx] = "done"
    /\ IF joinIdx + 1 = optThreads
       THEN /\ cpc' = "destroyed"
            /\ stop' = FALSE
            /\ UNCHANGED joinIdx
       ELSE /\ joinIdx' = joinIdx + 1
            /\ UNCHANGED <<cpc, stop>>
    /\ UNCHANGED <<active, deque, global, policy, workerVars, submitVars,
                   ghostVars, extVars>>

\* ~ThreadPool: thr.join() for each thread in turn.
Join ==
    /\ cpc = "join"
    /\ wpc[joinIdx] = "done"
    /\ IF joinIdx + 1 = optThreads
       THEN /\ cpc' = "destroyed"
            /\ UNCHANGED joinIdx
       ELSE /\ joinIdx' = joinIdx + 1
            /\ UNCHANGED cpc
    /\ UNCHANGED <<poolVars, workerVars, submitVars, ghostVars>>
    /\ UNCHANGED extVars

\* ------------------------------------------------------- shutdown()
\* Mutation: shutdown joins every thread, joined before or not, as the
\* destructor's loop does.
Joinable_Always(i) == TRUE

\* std::thread::joinable of threads_[i]: the thread has not been joined.
Joinable(i) == joinCount[i] = 0

\* shutdown(): initiates shutdown as destruction does, by setting stop_.
ShutdownCall ==
    /\ cpc = "idle"
    /\ shutdowns < MaxShutdowns
    /\ shutdowns' = shutdowns + 1
    /\ stop' = TRUE
    /\ cpc' = "sd_join"
    /\ joinIdx' = 0
    /\ acceptedAtStop' = IF stop THEN acceptedAtStop ELSE Accepted
    /\ activeAtStop' = IF stop THEN activeAtStop ELSE active
    /\ UNCHANGED <<active, deque, global, policy, workerVars, submitVars,
                   nextId, rejected, execCount, raised, inner, waitSnap>>
    /\ UNCHANGED <<fdepth, promised, aborted, mark, joinCount, ctorVars, auxVars>>

\* shutdown(): each worker thread that is still joinable is joined, which
\* blocks until that worker has left its loop; then shutdown() returns.
ShutdownJoin ==
    /\ cpc = "sd_join"
    /\ IF Joinable(joinIdx)
       THEN /\ wpc[joinIdx] = "done"
            /\ joinCount' = [joinCount EXCEPT ![joinIdx] = @ + 1]
       ELSE UNCHANGED joinCount
    /\ IF joinIdx + 1 = optThreads
       THEN /\ cpc' = "idle"
            /\ UNCHANGED joinIdx
       ELSE /\ joinIdx' = joinIdx + 1
            /\ UNCHANGED cpc
    /\ UNCHANGED <<poolVars, workerVars, submitVars, ghostVars>>
    /\ UNCHANGED <<fdepth, promised, aborted, mark, shutdowns, ctorVars, auxVars>>

\* ---------------------------------------------------- specification
SubmitStep(th) ==
    \/ SubmitCheck(th)
    \/ SubmitInc(th)
    \/ SubmitPush(th)
    \/ SubmitGlobal(th)

WorkerStep(w) ==
    \/ WorkerPop(w)
    \/ WorkerSteal(w)
    \/ WorkerGlobal(w)
    \/ WorkerExitCheck(w)
    \/ WorkerSleep(w)
    \/ TaskRun(w)
    \/ TaskFinish(w)
    \/ TaskGuardDtor(w)
    \/ TaskNotify(w)

Next ==
    \/ \E th \in Threads : SubmitStep(th)
    \/ \E w \in Workers : WorkerStep(w)
    \/ ClientSubmit
    \/ ClientWait
    \/ WaitCheck
    \/ WaitBlock
    \/ SpuriousWake
    \/ Destroy
    \/ Join

Spec == Init /\ [][Next]_vars

\* The scheduler runs every thread that can take a step: each worker thread
\* keeps executing its loop, a thread inside submit completes it, a waiter
\* that has evaluated the predicate goes on to block or return, and the
\* destructor's join returns once the joined thread has ended.  Nothing is
\* assumed about spurious wake-ups or about what the client chooses to call.
Fairness ==
    /\ \A w \in Workers : WF_vars(WorkerStep(w))
    /\ \A th \in Threads : WF_vars(SubmitStep(th))
    /\ WF_vars(WaitCheck)
    /\ WF_vars(WaitBlock)
    /\ WF_vars(Join)

FairSpec == Spec /\ Fairness

\* The pool when an enqueue inside submit may fail with an error.
FailNext ==
    \/ Next
    \/ \E th \in Threads : SubmitFail(th)

FailSpec == Init /\ [][FailNext]_vars

\* The pool when a running task may call wait() on its own pool.
TaskWaitStep(w) ==
    \/ TaskWait(w)
    \/ TaskWaitCheck(w)
    \/ TaskWaitBlock(w)
    \/ TaskSpuriousWake(w)

InnerWaitNext ==
    \/ Next
    \/ \E w \in Workers : TaskWaitStep(w)

InnerWaitSpec == Init /\ [][InnerWaitNext]_vars

\* The pool with the returns of wait() recorded.
RecallNext ==
    \/ \E th \in Threads : SubmitStep(th)
    \/ \E w \in Workers : WorkerStep(w)
    \/ ClientSubmit
    \/ ClientWait
    \/ WaitCheckMarked
    \/ WaitBlock
    \/ SpuriousWake
    \/ Destroy
    \/ Join

RecallSpec == Init /\ [][RecallNext]_vars

\* The pool when the client may also call the future-returning submit.
FutureNext ==
    \/ Next
    \/ ClientSubmitFuture
    \/ FutureDelegate

FutureSpec == Init /\ [][FutureNext]_vars

\* The pool shut down by explicit shutdown() calls.
ShutdownNext ==
    \/ \E th \in Threads : SubmitStep(th)
    \/ \E w \in Workers : WorkerStep(w)
    \/ ClientSubmit
    \/ ClientWait
    \/ WaitCheck
    \/ WaitBlock
    \/ SpuriousWake
    \/ ShutdownCall
    \/ ShutdownJoin

ShutdownSpec == Init /\ [][ShutdownNext]_vars

\* The pool constructed with threads = 1.
SingleSpec == SingleInit /\ [][Next]_vars

\* --------------------------------- one WorkStealingQueue on its own
\* A default-constructed queue; tasks are numbered in the order in which
\* they are handed to push or try_push.  Every member function holds
\* mutex_ for its whole body, so each call is one step.
QueueInit ==
    /\ PoolInit
    /\ wpc = [w \in Workers |-> "none"]
    /\ ctorPc = "constructed"
    /\ optThreads = ThreadCount
    /\ optSteal = StealAttempts
    /\ nQueues = ThreadCount
    /\ started = [k \in 1 .. ThreadCount |-> k - 1]
    /\ rrWorker = 0

\* Everything but the queue under test and its bookkeeping.
QueueFrame ==
    UNCHANGED <<poolVars, workerVars, submitVars, clientVars, ghostVars,
                fdepth, promised, aborted, mark, joinCount, shutdowns,
                ctorVars, stats, logVars, rrVars, lockVars, pf>>

\* WorkStealingQueue::push
QPush ==
    /\ qNext <= MaxTasks
    /\ dq' = PushBack(dq, qNext)
    /\ qNext' = qNext + 1
    /\ qOp' = [op |-> "push", ret |-> qNext]
    /\ UNCHANGED qGone
    /\ QueueFrame

\* WorkStealingQueue::try_push with some max_queue_size
QTryPush ==
    /\ qNext <= MaxTasks
    /\ \E cap \in 0 .. MaxTasks :
         IF TryPushAccepts(dq, cap)
         THEN /\ dq' = PushBack(dq, qNext)
              /\ qNext' = qNext + 1
              /\ qOp' = [op |-> "try_push", ret |-> qNext]
         ELSE /\ qOp' = [op |-> "try_push", ret |-> Empty]
              /\ UNCHANGED <<dq, qNext>>
    /\ UNCHANGED qGone
    /\ QueueFrame

\* WorkStealingQueue::try_pop
QTryPop ==
    /\ IF dq # <<>>
       THEN /\ qOp' = [op |-> "try_pop", ret |-> Back(dq)]
            /\ dq' = PopBack(dq)
            /\ qGone' = qGone \cup {Back(dq)}
       ELSE /\ qOp' = [op |-> "try_pop", ret |-> Empty]
            /\ UNCHANGED <<dq, qGone>>
    /\ UNCHANGED qNext
    /\ QueueFrame

\* WorkStealingQueue::try_steal
QTrySteal ==
    /\ IF dq # <<>>
       THEN /\ qOp' = [op |-> "try_steal", ret |-> Front(dq)]
            /\ dq' = PopFront(dq)
            /\ qGone' = qGone \cup {Front(dq)}
       ELSE /\ qOp' = [op |-> "try_steal", ret |-> Empty]
            /\ UNCHANGED <<dq, qGone>>
    /\ UNCHANGED qNext
    /\ QueueFrame

QueueNext ==
    \/ QPush
    \/ QTryPush
    \/ QTryPop
    \/ QTrySteal

QueueSpec == QueueInit /\ [][QueueNext]_vars

\* ------------------------------------ the order of the global queue
\* SubmitGlobal, with the submission recorded in the order of the pushes.
SubmitGlobalLogged(th) ==
    /\ spc[th] = "gpush"
    /\ global' = PushBack(global, sslot[th])
    /\ gPushed' = Append(gPushed, stask[th])
    /\ gIds' = Append(gIds, stask[th])
    /\ active' = SubmitGuardDtor(TRUE, active)
    /\ SubmitReturn(th)
    /\ UNCHANGED <<stop, deque, policy, wtask, attempt, stask, sslot,
                   joinIdx, ghostVars, gTaken>>
    /\ UNCHANGED <<fdepth, promised, aborted, mark, joinCount, shutdowns,
                   ctorVars, stats, queueVars, rrVars, lockVars, pf>>

\* WorkerGlobal, with the submission taken recorded in the order of the
\* successful try_steal calls.
WorkerGlobalLogged(w) ==
    /\ wpc[w] = "global"
    /\ IF global # <<>>
       THEN /\ wtask' = [wtask EXCEPT ![w] = Front(global)]
            /\ global' = PopFront(global)
            /\ gTaken' = Append(gTaken, Front(gIds))
            /\ gIds' = PopFront(gIds)
            /\ wpc' = [wpc EXCEPT ![w] = "run"]
       ELSE /\ wpc' = [wpc EXCEPT ![w] = "exitcheck"]
            /\ UNCHANGED <<wtask, global, gTaken, gIds>>
    /\ UNCHANGED <<stop, active, deque, policy, attempt, submitVars,
                   clientVars, ghostVars, gPushed>>
    /\ UNCHANGED <<fdepth, promised, aborted, mark, joinCount, shutdowns,
                   ctorVars, stats, queueVars, rrVars, lockVars, pf>>

OverflowSubmitStep(th) ==
    \/ SubmitCheck(th)
    \/ SubmitInc(th)
    \/ SubmitPush(th)
    \/ SubmitGlobalLogged(th)

OverflowWorkerStep(w) ==
    \/ WorkerPop(w)
    \/ WorkerSteal(w)
    \/ WorkerGlobalLogged(w)
    \/ WorkerExitCheck(w)
    \/ WorkerSleep(w)
    \/ TaskRun(w)
    \/ TaskFinish(w)
    \/ TaskGuardDtor(w)
    \/ TaskNotify(w)

OverflowNext ==
    \/ \E th \in Threads : OverflowSubmitStep(th)
    \/ \E w \in Workers : OverflowWorkerStep(w)
    \/ ClientSubmit
    \/ ClientWait
    \/ WaitCheck
    \/ WaitBlock
    \/ SpuriousWake
    \/ Destroy
    \/ Join

OverflowSpec == Init /\ [][OverflowNext]_vars

\* ------------------------------------ parallel_for / parallel_reduce
\* The reduce operations and the map function the client passes.
ReduceOps == {"plus", "max"}

ReduceOp(op, x, y) ==
    IF op = "plus" THEN x + y ELSE IF x >= y THEN x ELSE y

MapFunc(i) == i * i

\* `num_chunks = (range + chunk_size - 1) / chunk_size`
NumChunks(a) == (a.end - a.start + a.chunk - 1) \div a.chunk

\* `chunk_start = start + chunk * chunk_size`
ChunkStart(a, c) == a.start + c * a.chunk

\* `chunk_end = std::min(chunk_start + chunk_size, end)`
ChunkEnd(a, c) ==
    IF ChunkStart(a, c) + a.chunk <= a.end
    THEN ChunkStart(a, c) + a.chunk
    ELSE a.end

\* `for (i = lo; i < hi; ++i) result = reduce_op(result, map_func(i));`
RECURSIVE FoldRange(_, _, _, _)
FoldRange(op, acc, lo, hi) ==
    IF lo >= hi
    THEN acc
    ELSE FoldRange(op, ReduceOp(op, acc, MapFunc(lo)), lo + 1, hi)

\* The chunk task of parallel_reduce: `T partial = init;` and the loop.
Partial(a, c) == FoldRange(a.op, a.init, ChunkStart(a, c), ChunkEnd(a, c))

\* The packaged_task of t, owned by the wrapper closure, was destroyed
\* without having been invoked: the wrapper is in no queue, with no thread,
\* and was never run.  Its future then holds broken_promise.
Abandoned(t) ==
    /\ t < nextId
    /\ execCount[t] = 0
    /\ \A k \in 1 .. Len(global) : global[k] # t
    /\ \A i \in Workers : \A k \in 1 .. Len(deque[i]) : deque[i][k] # t
    /\ \A w \in Workers : wtask[w] # t
    /\ \A th \in Threads : spc[th] # "none" => sslot[th] # t

\* submit_task: thread th packages callable t into a one-shot wrapper, takes
\* the handle of the wrapper and enters the plain submit with the wrapper.
SubmitTask(th, t) ==
    /\ promised' = promised \cup {t}
    /\ spc' = [spc EXCEPT ![th] = "check"]
    /\ stask' = [stask EXCEPT ![th] = t]
    /\ sslot' = [sslot EXCEPT ![th] = t]

\* Everything but the call and what submit changes.
PfFrame ==
    UNCHANGED <<poolVars, workerVars, joinIdx, rejected, execCount, raised,
                inner, acceptedAtStop, activeAtStop, waitSnap, fdepth,
                aborted, mark, joinCount, shutdowns, ctorVars, stats, logVars,
                queueVars, rrVars, lockVars>>

\* The client calls parallel_for or parallel_reduce on the idle pool.
PfCall ==
    /\ pf.pc = "none"
    /\ cpc = "idle"
    /\ nextId = 1
    /\ \E alg \in {"for", "reduce"}, lo \in 0 .. 1, hi \in 0 .. MaxIndex,
          cs \in 1 .. MaxChunk, init \in 0 .. MaxInit, op \in ReduceOps :
         /\ alg = "for" => init = 0 /\ op = "plus"
         /\ (hi - lo + cs - 1) \div cs <= MaxTasks
         /\ pf' = [pc |-> "entry", alg |-> alg, start |-> lo, end |-> hi,
                   chunk |-> cs, init |-> init, op |-> op, inl |-> FALSE,
                   got |-> 0, acc |-> init]
    /\ UNCHANGED <<submitVars, cpc, nextId, promised>>
    /\ PfFrame

\* parallel_for.h 14-23 / parallel_reduce.h 17-27: an empty range returns
\* at once; a range of at most chunk_size runs in the calling thread.
PfEnter ==
    /\ pf.pc = "entry"
    /\ IF pf.start >= pf.end
       THEN pf' = [pf EXCEPT !.pc = "returned"]
       ELSE IF pf.end - pf.start <= pf.chunk
       THEN pf' = [pf EXCEPT !.pc = "returned", !.inl = TRUE,
                             !.acc = FoldRange(pf.op, pf.init, pf.start,
                                               pf.end)]
       ELSE pf' = [pf EXCEPT !.pc = "submit"]
    /\ UNCHANGED <<submitVars, cpc, nextId, promised>>
    /\ PfFrame

\* parallel_for.h 31-40 / parallel_reduce.h 35-46: the next chunk is
\* handed to submit_task and the handle is kept.
PfSubmit ==
    /\ pf.pc = "submit"
    /\ cpc = "idle"
    /\ nextId <= NumChunks(pf)
    /\ cpc' = "submit"
    /\ SubmitTask(Client, nextId)
    /\ nextId' = nextId + 1
    /\ UNCHANGED pf
    /\ PfFrame

\* The submit loop ends: `T final_result = init;`
PfCollect ==
    /\ pf.pc = "submit"
    /\ cpc = "idle"
    /\ nextId > NumChunks(pf)
    /\ pf' = [pf EXCEPT !.pc = "get", !.got = 0, !.acc = pf.init]
    /\ UNCHANGED <<submitVars, cpc, nextId, promised>>
    /\ PfFrame

\* parallel_for.h 43-45 / parallel_reduce.h 50-52: future.get() of the
\* next chunk in submission order.  It returns once the wrapper has been
\* run, and throws future_error when the wrapper was abandoned.
PfGet ==
    /\ pf.pc = "get"
    /\ pf.got < NumChunks(pf)
    /\ \/ /\ Finished(pf.got + 1)
          /\ pf' = [pf EXCEPT !.got = pf.got + 1,
                               !.acc = IF pf.alg = "reduce"
                                       THEN ReduceOp(pf.op, pf.acc,
                                                     Partial(pf, pf.got))
                                       ELSE pf.acc]
       \/ /\ Abandoned(pf.got + 1)
          /\ pf' = [pf EXCEPT !.pc = "threw"]
    /\ UNCHANGED <<submitVars, cpc, nextId, promised>>
    /\ PfFrame

\* Every future has been read: the call returns.
PfReturn ==
    /\ pf.pc = "get"
    /\ pf.got = NumChunks(pf)
    /\ pf' = [pf EXCEPT !.pc = "returned"]
    /\ UNCHANGED <<submitVars, cpc, nextId, promised>>
    /\ PfFrame

\* A worker step of the pool running chunk tasks: a chunk neither submits
\* to the pool nor raises.
ChunkWorkerStep(w) ==
    /\ WorkerStep(w)
    /\ spc'[w] = "none"
    /\ raised' = raised

ForNext ==
    \/ \E th \in Threads : SubmitStep(th)
    \/ \E w \in Workers : ChunkWorkerStep(w)
    \/ PfCall
    \/ PfEnter
    \/ PfSubmit
    \/ PfCollect
    \/ PfGet
    \/ PfReturn

ForSpec == Init /\ [][ForNext]_vars

\* -------------------------------------- a second external thread
\* The other external thread calls submit with a fresh callable while the
\* pool object exists; the client may be inside wait() or inside the
\* destructor at the time.
OtherSubmit ==
    /\ spc[Other] = "none"
    /\ cpc # "destroyed"
    /\ nextId <= MaxTasks
    /\ spc' = [spc EXCEPT ![Other] = "check"]
    /\ stask' = [stask EXCEPT ![Other] = nextId]
    /\ sslot' = [sslot EXCEPT ![Other] = nextId]
    /\ nextId' = nextId + 1
    /\ UNCHANGED <<poolVars, workerVars, clientVars, rejected, execCount,
                   raised, inner, acceptedAtStop, activeAtStop, waitSnap>>
    /\ UNCHANGED extVars

\* The pool when the other thread makes the external submissions and the
\* client, which owns the pool, waits for it and destroys it.
RaceNext ==
    \/ \E th \in Threads : SubmitStep(th)
    \/ \E w \in Workers : WorkerStep(w)
    \/ OtherSubmit
    \/ ClientWait
    \/ WaitCheck
    \/ WaitBlock
    \/ SpuriousWake
    \/ Destroy
    \/ Join

RaceSpec == Init /\ [][RaceNext]_vars

\* The same when an enqueue inside submit may fail with an error.
FailRaceNext ==
    \/ RaceNext
    \/ \E th \in Threads : SubmitFail(th)

FailRaceSpec == Init /\ [][FailRaceNext]_vars

\* ---------------------------------------------- the pool's mutexes
\* Every place where a thread locks a mutex of the pool, with what the
\* guarded code finds left open.  lpc[th].op is the call the thread is in
\* ("none": a worker at the top of a pass, the external thread between
\* calls; "exec": a worker inside the callable of a task), .st is "want"
\* before the lock of that call is acquired, "held" while its guard is
\* alive and "out" otherwise, .lock is the mutex of the call and .a the
\* attempt number of the steal loop.
At(th, o, s) == lpc[th].op = o /\ lpc[th].st = s

\* The thread goes on to the call o, which starts by locking l.
Call(th, o, l, n) ==
    lpc' = [lpc EXCEPT ![th] = [op |-> o, st |-> "want", lock |-> l, a |-> n]]

\* The thread goes on to o without asking for a mutex.
Goto(th, o) ==
    lpc' = [lpc EXCEPT ![th] = [op |-> o, st |-> "out", lock |-> NoLock,
                                a |-> 0]]

\* Mutation: the guard's destructor leaves the mutex locked.
LockGuardDtor_Leaks(own, l) == own

\* ~lock_guard / ~unique_lock / the unlock inside cv.wait
LockGuardDtor(own, l) == [own EXCEPT ![l] = NoThread]

\* Where a call made by th returns to: the callable of the running task
\* for a worker, the external thread's code otherwise.
Caller(th) == IF th \in Workers THEN "exec" ELSE "none"

\* Everything but the mutexes.
LockFrame ==
    UNCHANGED <<poolVars, workerVars, submitVars, clientVars, ghostVars,
                fdepth, promised, aborted, mark, joinCount, shutdowns,
                ctorVars, stats, logVars, queueVars, rrVars, pf>>

\* std::lock_guard / std::unique_lock constructor, and the re-lock when
\* cv.wait wakes: blocks until the mutex is free.
LockAcquire(th) ==
    /\ lpc[th].st = "want"
    /\ lockOwner[lpc[th].lock] = NoThread
    /\ lockOwner' = [lockOwner EXCEPT ![lpc[th].lock] = th]
    /\ lpc' = [lpc EXCEPT ![th].st = "held"]
    /\ LockFrame

\* worker, line 90: the pass starts with try_pop on the own deque.
LockPassStart(w) ==
    /\ At(w, "none", "out")
    /\ Call(w, "try_pop", DequeLock(w), 0)
    /\ UNCHANGED lockOwner
    /\ LockFrame

\* try_pop returns (its guard is destroyed): with a task, which is
\* executed, or without, which starts the steal loop at attempt 1.
LockTryPop(w) ==
    /\ At(w, "try_pop", "held")
    /\ lockOwner' = LockGuardDtor(lockOwner, lpc[w].lock)
    /\ \/ Goto(w, "exec")
       \/ \E v \in GetNextVictim(w, 1) : Call(w, "try_steal", DequeLock(v), 1)
    /\ LockFrame

\* try_steal on a victim's deque returns: with a task, or without, and the
\* loop goes on to the next attempt or ends and the global queue is tried.
LockTrySteal(w) ==
    /\ At(w, "try_steal", "held")
    /\ lockOwner' = LockGuardDtor(lockOwner, lpc[w].lock)
    /\ \/ Goto(w, "exec")
       \/ IF MoreAttempts(lpc[w].a)
          THEN \E v \in GetNextVictim(w, lpc[w].a + 1) :
                   Call(w, "try_steal", DequeLock(v), lpc[w].a + 1)
          ELSE Call(w, "global_steal", GlobalLock, 0)
    /\ LockFrame

\* global_queue_.try_steal returns: with a task, or without, and after the
\* exit check the worker ends or sleeps and starts the next pass.
LockGlobalSteal(w) ==
    /\ At(w, "global_steal", "held")
    /\ lockOwner' = LockGuardDtor(lockOwner, lpc[w].lock)
    /\ \/ Goto(w, "exec")
       \/ Goto(w, "none")
       \/ Goto(w, "done")
    /\ LockFrame

\* execute_task: the callable runs.  It returns (the TaskGuard decrements
\* and notifies without a mutex) and the next pass starts, or it calls
\* submit or wait on the pool.
LockExecute(w) ==
    /\ At(w, "exec", "out")
    /\ \/ Goto(w, "none")
       \/ \E idx \in GetRandomThread : Call(w, "try_push", DequeLock(idx), 0)
       \/ Call(w, "wait", CompletionMutex, 0)
    /\ UNCHANGED lockOwner
    /\ LockFrame

\* The external thread calls submit or wait.
LockClientCall ==
    /\ At(Client, "none", "out")
    /\ \/ \E idx \in GetRandomThread :
            Call(Client, "try_push", DequeLock(idx), 0)
       \/ Call(Client, "wait", CompletionMutex, 0)
    /\ UNCHANGED lockOwner
    /\ LockFrame

\* submit, lines 74-80: try_push returns true and submit returns, or
\* false and the task goes to global_queue_.push.
LockTryPush(th) ==
    /\ At(th, "try_push", "held")
    /\ lockOwner' = LockGuardDtor(lockOwner, lpc[th].lock)
    /\ \/ Goto(th, Caller(th))
       \/ Call(th, "global_push", GlobalLock, 0)
    /\ LockFrame

\* submit, lines 80-82: global_queue_.push returns and submit returns.
LockGlobalPush(th) ==
    /\ At(th, "global_push", "held")
    /\ lockOwner' = LockGuardDtor(lockOwner, lpc[th].lock)
    /\ Goto(th, Caller(th))
    /\ LockFrame

\* wait, lines 163-168: with completion_mutex_ held the predicate is
\* evaluated; true: wait returns and the unique_lock is destroyed; false:
\* cv.wait unlocks the mutex and blocks.
LockWait(th) ==
    /\ At(th, "wait", "held")
    /\ lockOwner' = LockGuardDtor(lockOwner, lpc[th].lock)
    /\ \/ Goto(th, Caller(th))
       \/ Goto(th, "blocked")
    /\ LockFrame

\* A notification or a spurious wake-up: cv.wait locks the mutex again.
LockWake(th) ==
    /\ At(th, "blocked", "out")
    /\ Call(th, "wait", CompletionMutex, 0)
    /\ UNCHANGED lockOwner
    /\ LockFrame

LockNext ==
    \/ \E th \in Threads : LockAcquire(th)
    \/ \E w \in Workers : LockPassStart(w)
    \/ \E w \in Workers : LockTryPop(w)
    \/ \E w \in Workers : LockTrySteal(w)
    \/ \E w \in Workers : LockGlobalSteal(w)
    \/ \E w \in Workers : LockExecute(w)
    \/ LockClientCall
    \/ \E th \in Threads : LockTryPush(th)
    \/ \E th \in Threads : LockGlobalPush(th)
    \/ \E th \in Threads : LockWait(th)
    \/ \E th \in Threads : LockWake(th)

LockSpec == Init /\ [][LockNext]_vars

\* ------------------------------------------ get_next_victim, RoundRobin
\* A pool of N = optThreads workers under the RoundRobin policy; worker
\* rrWorker is about to make the steal sweep of one pass.
VictimInit ==
    /\ PoolInit
    /\ policy = "RoundRobin"
    /\ wpc = [w \in Workers |-> "none"]
    /\ ctorPc = "constructed"
    /\ optThreads \in 1 .. MaxCtorThreads
    /\ optSteal \in 1 .. MaxSweep
    /\ nQueues = optThreads
    /\ started = [k \in 1 .. optThreads |-> k - 1]
    /\ rrWorker \in 0 .. (optThreads - 1)

\* Line 103: `get_next_victim(worker_index, attempt)` for the next attempt
\* of the loop `for (attempt = 1; attempt <= steal_attempts_; ++attempt)`.
VictimAttempt ==
    /\ Len(rrVictims) + 1 <= optSteal
    /\ \E v \in GetNextVictim(rrWorker, Len(rrVictims) + 1) :
         rrVictims' = Append(rrVictims, v)
    /\ UNCHANGED <<poolVars, workerVars, submitVars, clientVars, ghostVars,
                   fdepth, promised, aborted, mark, joinCount, shutdowns,
                   ctorVars, stats, logVars, queueVars, rrWorker, lockVars,
                   pf>>

VictimNext == VictimAttempt

VictimSpec == VictimInit /\ [][VictimNext]_vars

\* ------------------------------------------------------------ claims
AcceptedBeforeStop == IF stop THEN acceptedAtStop ELSE Accepted

NotifyPending == \E w \in Workers : wpc[w] = "notify"

\* C1: every task accepted before the shutdown flag was set is executed
\* exactly once: no callable is invoked twice, and an accepted task that has
\* not been invoked yet is still in a queue or in a worker's hands.
C1_ExactlyOnce ==
    /\ \A t \in TaskIds : execCount[t] <= 1
    /\ \A t \in AcceptedBeforeStop :
         execCount[t] = 0 => (Queued(t) \/ Held(t))

\* C2: when wait() returns, the counter is zero, nothing is queued or
\* executing, and every task accepted before the call has finished executing.
C2_WaitObservesQuiescence ==
    [][(cpc = "w_check" /\ cpc' = "idle") =>
          /\ active = 0
          /\ \A i \in Workers : deque[i] = <<>>
          /\ global = <<>>
          /\ \A w \in Workers : wpc[w] \notin {"run", "fin", "nested", "guard"}
          /\ \A t \in waitSnap : Finished(t)]_vars

\* C3: a waiter blocked on the condition variable is always woken after the
\* decrement that brings the counter to zero: it is never blocked with the
\* counter at zero and no notification still to come.
C3_WaiterAlwaysWoken ==
    ~(cpc = "w_blocked" /\ active = 0 /\ ~NotifyPending)

\* C4: when destruction returns, every worker has left its loop and every
\* task accepted before destruction began has been executed exactly once.
C4_DestroyedAllExecuted ==
    cpc = "destroyed" =>
        /\ \A w \in Workers : wpc[w] = "done"
        /\ \A t \in acceptedAtStop : execCount[t] = 1

\* C5: once the shutdown flag is set, every worker eventually passes its
\* exit check and the destructor's joins complete.
C5_DestructionTerminates ==
    stop ~> (cpc = "destroyed" /\ \A w \in Workers : wpc[w] = "done")

\* C5 witness: destruction has returned although tasks were pending when the
\* flag was set.
C5_Witness == cpc = "destroyed" /\ activeAtStop >= 2

\* C6: a submit that runs with the shutdown flag set throws and changes
\* neither the counter nor any queue, and a rejected task is never queued,
\* dequeued or executed.
C6_RejectedSubmitHasNoEffect ==
    [][/\ \A th \in Threads :
            (spc[th] = "check" /\ stop /\ spc'[th] # "check") =>
                /\ stask[th] \in rejected'
                /\ spc'[th] = "none"
                /\ active' = active
                /\ deque' = deque
                /\ global' = global
       /\ \A t \in rejected' :
            execCount'[t] = 0 /\ ~Queued(t)' /\ ~Held(t)']_vars

\* C6 witness: a submit issued after the flag was set has been rejected and
\* the pool has been destroyed since.
C6_Witness == rejected # {} /\ cpc = "destroyed"

\* C8: the task pushed to the global queue after a failed try_push is the
\* submitted callable, unchanged, and it is executed exactly once.
C8_OverflowDeliversTask ==
    /\ \A k \in 1 .. Len(global) : global[k] # Empty
    /\ \A th \in Threads : spc[th] = "gpush" => sslot[th] = stask[th]
    /\ \A w \in Workers : wpc[w] = "run" => wtask[w] # Empty

\* C9: the size of every per-worker deque is at most max_queue_tasks.
C9_DequeBounded == \A i \in Workers : Len(deque[i]) <= MaxQueueTasks

\* C9 witness: a deque is at capacity while the global queue has grown
\* beyond that bound.
C9_Witness ==
    /\ \E i \in Workers : Len(deque[i]) = MaxQueueTasks
    /\ Len(global) > MaxQueueTasks

\* The counter equals the number of queue slots, of dequeued tasks whose
\* guard has not run yet, and of submit calls between increment and enqueue.
CounterExact ==
    active = Len(global)
             + Cardinality({k \in Workers \X (1 .. MaxTasks) :
                              k[2] <= Len(deque[k[1]])})
             + Cardinality({w \in Workers :
                   wpc[w] \in {"run", "fin", "nested", "guard"} \cup InTaskWait})
             + Cardinality({th \in Threads : spc[th] \in {"push", "gpush"}})

\* C7: once a task has raised a failure the pool goes on as after a normal
\* return: the counter stays exact (one decrement for the task), every
\* accepted task is executed by the time the counter is back at zero, and a
\* waiter is not left blocked with the counter at zero.
C7_RaisingTaskHarmless ==
    raised # {} =>
        /\ CounterExact
        /\ (active = 0 => \A t \in Accepted : execCount[t] = 1)
        /\ (cpc = "w_blocked" /\ active = 0 => NotifyPending)

\* C10: a task submitted from inside a running task is executed exactly
\* once, the counter is not zero while such a task is unfinished, and an
\* outside waiter is not left blocked once the counter is zero.
C10_NestedSubmissionSafe ==
    /\ \A t \in inner \cap Accepted :
         /\ execCount[t] <= 1
         /\ execCount[t] = 0 => (Queued(t) \/ Held(t))
         /\ active = 0 => Finished(t)
    /\ (inner \cap Accepted # {} /\ cpc = "w_blocked" /\ active = 0)
         => NotifyPending

\* C13: the quiescence counter is exact in every reachable state: it equals
\* the number of queue slots (worker deques and global queue) plus the
\* number of dequeued tasks whose TaskGuard is still alive plus the number
\* of submit calls between their fetch_add and their enqueue; it is never
\* below zero.
C13_CounterExact == CounterExact /\ active >= 0

C13_Witness ==
    /\ active = 3
    /\ \E i \in Workers : deque[i] # <<>>
    /\ \E w \in Workers : wpc[w] = "fin"
    /\ \E th \in Threads : spc[th] = "push"

\* C18: stop_ is false when construction has finished, only the
\* destructor's store (the client going from idle to joining) changes it,
\* and no step of submit, wait, the worker loop or the join loop ever sets
\* it back to false.
C18_StopSetOnceNeverReset ==
    /\ stop = FALSE
    /\ [][/\ stop => stop'
          /\ stop' # stop => (cpc = "idle" /\ cpc' = "join")]_vars

C18_Witness ==
    stop /\ cpc = "destroyed" /\ acceptedAtStop # {} /\ rejected # {}

\* Number of slots in the worker deques and the global queue.
Slots ==
    Len(global)
    + Cardinality({k \in Workers \X (1 .. MaxTasks) : k[2] <= Len(deque[k[1]])})

\* C14: a submit call that leaves lines 73-82 with an error has taken back
\* its increment (the counter is one lower than before the guard ran and no
\* queue changed), its task is never queued, held or executed, and the
\* counter stays exact; a submit call that leaves them normally has added
\* exactly one slot and has left the counter as it was.
C14_RollbackOnFailedEnqueue ==
    [][/\ \A th \in Threads :
            (spc[th] \in {"push", "gpush"} /\ spc'[th] = "none") =>
                IF stask[th] \in aborted'
                THEN /\ active' = active - 1
                     /\ deque' = deque /\ global' = global
                ELSE /\ active' = active
                     /\ Slots' = Slots + 1
       /\ \A t \in aborted' : execCount'[t] = 0 /\ ~Queued(t)' /\ ~Held(t)'
       /\ CounterExact']_vars

C14_Witness ==
    /\ aborted # {}
    /\ \E t \in Accepted : Queued(t)
    /\ \E th \in Threads : spc[th] = "gpush"

\* C15: a task that has called wait() on its own pool stays inside wait()
\* for ever, and the counter is at least one in every state in which it is
\* there (the task's own count is released by its TaskGuard only after the
\* callable has returned).
C15_TaskWaitNeverReturns ==
    [][\A w \in Workers :
          /\ wpc[w] \in InTaskWait => wpc'[w] \in InTaskWait
          /\ wpc'[w] \in InTaskWait => active' >= 1]_vars

C15_Witness ==
    /\ \E w \in Workers : wpc[w] = "tw_blocked"
    /\ active = 1
    /\ Cardinality(Accepted) >= 2

\* Accepted tasks that were submitted after the last return of wait().
LaterAccepted == {t \in Accepted : mark # 0 /\ t >= mark}

\* C16: after a wait() has returned, submit still accepts tasks (it rejects
\* only once stop_ is set) and a later wait() returns only when every task
\* accepted since the earlier return has been executed and has finished.
C16_LaterWaitCoversLaterTasks ==
    [][/\ (cpc = "w_check" /\ cpc' = "idle" /\ mark # 0) =>
            \A t \in LaterAccepted : Finished(t)
       /\ \A t \in rejected' : mark' # 0 /\ t >= mark' => stop']_vars

\* A wait() has returned and no submit call has been made since.
Quiet == mark # 0 /\ nextId = mark

\* C17: a wait() called after a wait() has returned, with no submission in
\* between, finds the counter at zero, does not block, and leaves the
\* counter, the queues and the shutdown flag as they were.
C17_SecondWaitIsNoOp ==
    [][(cpc = "w_check" /\ Quiet) =>
          /\ active = 0
          /\ cpc' # "w_block"
          /\ active' = active /\ deque' = deque /\ global' = global
          /\ stop' = stop]_vars

C17_Witness == cpc = "w_check" /\ Quiet /\ Cardinality(Accepted) >= 2

\* C11: the handle of every call is backed by its wrapper task: once the
\* call has gone past line 91, the wrapper of the callable whose future was
\* taken is inside the plain submit, in a queue, held by a worker or
\* executed, so that the handle becomes ready when, and only when, a worker
\* has run the wrapper (execCount 1, one TaskGuard decrement).
C11_HandleBackedByWrapper ==
    \A t \in promised :
        \/ cpc = "fsubmit" /\ stask[Client] = t /\ fdepth = 1
        \/ spc[Client] # "none" /\ stask[Client] = t
        \/ Queued(t) \/ Held(t)
        \/ execCount[t] = 1

\* C12: the call made at line 91 enters the plain submit and ends the
\* template's only activation; the template is never active inside itself.
C12_DelegatesToPlainSubmitOnce ==
    [][(cpc = "fsubmit" /\ fdepth' # fdepth) =>
          /\ fdepth = 1 /\ fdepth' = 0
          /\ spc[Client] = "none" /\ spc'[Client] = "check"]_vars

\* C20: with threads = 0 or steal_attempts <= 0 the constructor never gets
\* past its validation, where it fails with no deque created and no thread
\* started, and it fails for no other options; a constructor that has
\* returned has created `threads` deques and started exactly `threads`
\* workers, bound to the distinct indices 0 .. threads-1.
C20_ConstructionValidates ==
    /\ (optThreads = 0 \/ optSteal <= 0) =>
            /\ ctorPc \in {"validate", "failed"}
            /\ nQueues = 0 /\ started = <<>>
    /\ ctorPc = "failed" => (optThreads = 0 \/ optSteal <= 0)
    /\ ctorPc = "constructed" =>
            /\ optThreads >= 1 /\ optSteal >= 1
            /\ nQueues = optThreads
            /\ Len(started) = optThreads
            /\ {started[k] : k \in 1 .. Len(started)} = 0 .. (optThreads - 1)

C20_Witness == ctorPc = "failed" /\ optThreads >= 1 /\ optSteal = 0

\* A shutdown() called on a pool that has already shut down is running.
SecondShutdown == shutdowns >= 2 /\ cpc = "sd_join"

C22_SingleWorkerNeverSteals ==
    [][/\ \A w \in Workers : wpc[w] = "steal" => wpc'[w] # "run"
       /\ \A th \in Threads :
            (spc[th] = "push" /\ spc'[th] = "gpush") =>
                Len(deque[0]) >= MaxQueueTasks]_vars

\* C25: a try_push that returns true appended the caller's task at the back
\* of a deque whose size was below the capacity; one that returns false
\* found the deque at capacity, left every deque as it was and left the
\* caller's task the same callable.
C25_TryPushFrame ==
    [][\A th \in Threads :
         (spc[th] = "push" /\ spc'[th] # "push" /\ aborted' = aborted) =>
             IF spc'[th] = "gpush"
             THEN /\ \E idx \in GetRandomThread :
                       Len(deque[idx]) >= MaxQueueTasks
                  /\ deque' = deque
                  /\ sslot'[th] = sslot[th]
             ELSE \E idx \in GetRandomThread :
                       /\ Len(deque[idx]) < MaxQueueTasks
                       /\ deque' = [deque EXCEPT
                                       ![idx] = Append(@, sslot[th])]]_vars

\* C23: when wait() returns to the external thread and no submit call is in
\* progress, tasks_submitted and tasks_executed both equal the number of
\* accepted submissions.
C23_StatsMatchAccepted ==
    [][(/\ cpc = "w_check"
        /\ cpc' = "idle"
        /\ \A th \in Threads : spc[th] = "none") =>
            /\ stats.tasks_submitted = Cardinality(Accepted)
            /\ stats.tasks_executed = Cardinality(Accepted)]_vars

\* C28: a worker leaves its loop only from the exit check, with the shutdown
\* flag set and the counter at zero, holding no task, while no task is
\* queued, held or executing on any worker; and it reaches the exit check
\* only from a failed try_steal on the global queue.
C28_ExitOnlyWhenStoppedAndQuiet ==
    [][\A w \in Workers :
         /\ (wpc'[w] = "done" /\ wpc[w] # "done") =>
                /\ wpc[w] = "exitcheck"
                /\ stop
                /\ active = 0
                /\ wtask[w] = Empty
                /\ \A t \in TaskIds :
                      ~Queued(t) /\ ~Held(t) /\ ~Executing(t)
         /\ (wpc'[w] = "exitcheck" /\ wpc[w] # "exitcheck") =>
                wpc[w] = "global" /\ global = <<>>]_vars

\* A worker has left its loop after tasks were executed.
C28_Witness ==
    \E w \in Workers :
        /\ wpc[w] = "done"
        /\ \E t \in TaskIds : execCount[t] >= 1

\* C27: a worker enters the steal loop only from a failed local try_pop,
\* turns to the global queue only after its attempt number steal_attempts
\* failed, takes from the global queue only at that step, and after the
\* TaskGuard of an executed task is released it is back at the local
\* try_pop.
C27_SourcesInOrder ==
    [][/\ Len(global') < Len(global) =>
            \E w \in Workers :
                /\ wpc[w] = "global"
                /\ wpc'[w] = "run"
                /\ wtask'[w] = global[1]
       /\ \A w \in Workers :
         /\ (wpc'[w] = "steal" /\ wpc[w] # "steal") =>
                wpc[w] = "pop" /\ deque[w] = <<>> /\ attempt'[w] = 1
         /\ (wpc'[w] = "global" /\ wpc[w] # "global") =>
                /\ wpc[w] = "steal"
                /\ attempt[w] = StealAttempts
                /\ wtask'[w] = Empty
         /\ (wpc[w] = "guard" /\ wpc'[w] # "guard") =>
                wpc'[w] \in {"notify", "pop"}
         /\ (wpc[w] = "notify" /\ wpc'[w] # "notify") => wpc'[w] = "pop"]_vars

\* A worker whose try_pop and steal attempts all failed is at the global
\* queue, which holds a task.
C27_Witness ==
    \E w \in Workers :
        /\ wpc[w] = "global"
        /\ global # <<>>
        /\ \A i \in Workers : deque[i] = <<>>

\* C29: the attempt number of a worker in the steal loop is between 1 and
\* steal_attempts and goes up by one per failed try_steal; a successful
\* try_steal ends the loop; a worker obtains a task only at a try_pop or
\* try_steal of its pass and only while it holds none, so it executes one
\* task per pass; a failed exit check leads to the sleep and from there to
\* the local try_pop.
C29_OnePassBounded ==
    [][\A w \in Workers :
         /\ wpc[w] = "steal" => attempt[w] \in 1 .. StealAttempts
         /\ (wpc[w] = "steal" /\ wpc'[w] = "steal") =>
                attempt'[w] \in {attempt[w], attempt[w] + 1}
         /\ (wpc[w] = "steal" /\ wtask'[w] # wtask[w]) => wpc'[w] = "run"
         /\ (wtask'[w] # wtask[w] /\ wtask[w] = Empty) =>
                wpc[w] \in {"pop", "steal", "global"} /\ wpc'[w] = "run"
         /\ (wtask'[w] # wtask[w] /\ wtask[w] # Empty) =>
                wpc[w] = "guard" /\ wtask'[w] = Empty
         /\ (\E t \in TaskIds : execCount'[t] # execCount[t]
                                  /\ wtask[w] = t /\ wpc[w] = "run") =>
                wpc'[w] \in {"fin", "nested"}
         /\ (wpc[w] = "exitcheck" /\ wpc'[w] \notin {"exitcheck", "done"}) =>
                wpc'[w] = "sleep"
         /\ (wpc[w] = "sleep" /\ wpc'[w] # "sleep") => wpc'[w] = "pop"]_vars

\* One worker is at its last steal attempt while another sleeps after a
\* pass that found nothing.
C29_Witness ==
    \E w, x \in Workers :
        /\ wpc[w] = "steal"
        /\ attempt[w] = StealAttempts
        /\ wpc[x] = "sleep"

\* C30: under RoundRobin the victim of worker i at attempt a is
\* (i + a) mod N, an index in [0, N); for N >= 2 the victims of attempts
\* 1 .. N-1 are pairwise distinct and none is i, and the victim of attempt
\* N is i.
C30_RoundRobinVictims ==
    \A a \in 1 .. Len(rrVictims) :
        /\ rrVictims[a] = (rrWorker + a) % optThreads
        /\ rrVictims[a] \in 0 .. (optThreads - 1)
        /\ optThreads >= 2 =>
              /\ a <= optThreads - 1 =>
                    /\ rrVictims[a] # rrWorker
                    /\ \A b \in 1 .. (a - 1) : rrVictims[b] # rrVictims[a]
              /\ a = optThreads => rrVictims[a] = rrWorker

\* A sweep of a pool of at least three workers has gone past attempt N.
C30_Witness ==
    /\ policy = "RoundRobin"
    /\ optThreads >= 3
    /\ rrWorker >= 1
    /\ Len(rrVictims) >= optThreads

\* The tasks held by a queue.
Present(q) == {q[k] : k \in 1 .. Len(q)}

\* q without its element number k.
Without(q, k) == SubSeq(q, 1, k - 1) \o SubSeq(q, k + 1, Len(q))

\* C24: on one deque try_pop returns the most recently pushed task still
\* present and try_steal the least recently pushed one; each removes
\* exactly the task it returns and leaves the others in order; no task is
\* returned twice; on an empty deque both return nothing and change
\* nothing.
C24_PopBackStealFront ==
    [][(qOp'.op \in {"try_pop", "try_steal"} /\ <<dq, qOp>>' # <<dq, qOp>>) =>
          IF dq = <<>>
          THEN qOp'.ret = Empty /\ dq' = dq /\ qGone' = qGone
          ELSE /\ qOp'.ret \in Present(dq)
               /\ qOp'.ret \notin qGone
               /\ qGone' = qGone \cup {qOp'.ret}
               /\ \A t \in Present(dq) :
                     IF qOp'.op = "try_pop"
                     THEN t <= qOp'.ret
                     ELSE t >= qOp'.ret
               /\ \E k \in 1 .. Len(dq) :
                     dq[k] = qOp'.ret /\ dq' = Without(dq, k)]_vars

\* A try_steal has returned a task after a try_pop returned another, and a
\* third task is still in the deque.
C24_Witness ==
    /\ qOp.op = "try_steal"
    /\ qOp.ret # Empty
    /\ Cardinality(qGone) >= 2
    /\ \E t \in qGone : t > qOp.ret
    /\ dq # <<>>

\* C26: the submissions taken from the global queue, in the order taken,
\* followed by those still in it, are the submissions pushed to it in the
\* order pushed; every slot of the queue holds what its submission pushed.
C26_GlobalQueueFifo ==
    /\ gPushed = gTaken \o gIds
    /\ Len(gIds) = Len(global)
    /\ \A k \in 1 .. Len(global) : global[k] \in MovedFrom(gIds[k])

\* Two submissions have been taken from the global queue.
C26_Witness == Len(gTaken) >= 2

\* The mutexes of the pool that th holds.
HeldBy(th) == {l \in Locks : lockOwner[l] = th}

\* C21: no thread holds two of the pool's mutexes; a thread holds one only
\* inside the queue or wait call that locked it, so a worker holds none
\* when it invokes a callable, while the callable runs its own code, and
\* while it is blocked in cv.wait; and a thread that waits for a mutex
\* holds none, so the owner of any contended mutex can always go on to
\* release it.
C21_NoLockAcrossTasksNoNesting ==
    /\ \A th \in Threads :
          /\ Cardinality(HeldBy(th)) <= 1
          /\ lpc[th].st = "held" => HeldBy(th) = {lpc[th].lock}
          /\ lpc[th].st # "held" => HeldBy(th) = {}
          /\ lpc[th].op \in {"none", "exec", "blocked", "done"} =>
                HeldBy(th) = {}
    /\ \A l \in Locks :
          lockOwner[l] # NoThread =>
              lpc[lockOwner[l]].st = "held" /\ lpc[lockOwner[l]].lock = l

\* A callable is running on one worker while the other worker holds a
\* deque mutex that the external thread's submit is waiting for.
C21_Witness ==
    \E w, x \in Workers :
        /\ lpc[w].op = "exec"
        /\ lpc[x].st = "held"
        /\ lpc[Client].st = "want"
        /\ lpc[Client].lock = lpc[x].lock

\* Number of places that hold task t: slots of the worker deques, slots of
\* the global queue, the `task` parameter of a submit call past its
\* increment, and the local `task` of a worker.
Places(t) ==
    Cardinality({k \in Workers \X (1 .. MaxTasks) :
                    k[2] <= Len(deque[k[1]]) /\ deque[k[1]][k[2]] = t})
    + Cardinality({k \in 1 .. Len(global) : global[k] = t})
    + Cardinality({th \in Threads :
                    spc[th] \in {"push", "gpush"} /\ sslot[th] = t})
    + Cardinality({w \in Workers : wtask[w] = t})

\* t has been counted by a submit call that has not failed, and its
\* callable has not returned yet.
InFlight(t) ==
    /\ t < nextId
    /\ t \notin rejected \cup aborted
    /\ \/ \E th \in Threads : stask[th] = t /\ spc[th] \in {"push", "gpush"}
       \/ t \in Accepted /\ ~Finished(t)

\* C31: every task is in at most one place, and an accepted task that has
\* not finished is in exactly one.
C31_HeldInExactlyOnePlace ==
    \A t \in TaskIds :
        /\ Places(t) <= 1
        /\ InFlight(t) => Places(t) = 1

\* C35: once every worker has left its loop no task is in a queue and no
\* submit call is past its shutdown check: a submit that passed the check
\* before the flag was set has enqueued its task before the last worker's
\* exit check.
C35_NoEnqueueAfterWorkersExit ==
    (\A w \in Workers : wpc[w] = "done") =>
        /\ Slots = 0
        /\ \A th \in Threads : spc[th] \notin {"inc", "push", "gpush"}

\* C36: every step that brings the counter to zero while the client is in
\* wait() on the condition variable is followed by a notification.
C36_EveryZeroNotifies ==
    [][(active # 0 /\ active' = 0 /\ cpc \in {"w_block", "w_blocked"}) =>
          NotifyPending']_vars

\* C37: a task that sits in a worker deque or in the global queue always
\* has a worker left to dequeue it: while a task is queued not every worker
\* has left its loop.
C37_QueuedTaskHasWorker ==
    \A t \in TaskIds :
        Queued(t) => \E w \in Workers : wpc[w] # "done"

\* Nested submissions that were rejected.
NestedRejected == rejected \cap inner

\* C38: a submit called by a running task with the shutdown flag set is
\* rejected and changes neither the counter nor any queue; the error leaves
\* the callable and ends in the worker, which releases the TaskGuard of the
\* outer task, decrementing the counter by one, and goes on with its loop;
\* and destruction completes with every worker ended and joined.
C38_NestedSubmitAfterStop ==
    /\ [][\A w \in Workers :
            /\ (spc[w] = "check" /\ stop /\ spc'[w] # "check") =>
                  /\ stask[w] \in rejected'
                  /\ spc'[w] = "none"
                  /\ active' = active
                  /\ deque' = deque
                  /\ global' = global
                  /\ wtask'[w] = wtask[w]
                  /\ wpc'[w] = "guard"
            /\ (wpc[w] = "guard" /\ wpc'[w] # "guard") =>
                  /\ active' = active - 1
                  /\ wtask'[w] = Empty
                  /\ wpc'[w] \in {"notify", "pop"}]_vars
    /\ (NestedRejected # {}) ~>
          (cpc = "destroyed" /\ \A w \in Workers : wpc[w] = "done")

\* A nested submit was rejected and the pool has been destroyed since.
C38_Witness ==
    /\ NestedRejected # {}
    /\ cpc = "destroyed"
    /\ \A w \in Workers : wpc[w] = "done"

\* The chunks of the call that contain index i.
ChunksOf(i) ==
    {c \in 0 .. (NumChunks(pf) - 1) :
        ChunkStart(pf, c) <= i /\ i < ChunkEnd(pf, c)}

\* The call has ended, by returning or by an exception.
PfEnded == pf.pc \in {"returned", "threw"}

\* C32: the chunks of a parallel_for partition [start, end); when the call
\* has ended every chunk has been run exactly once and has completed, so
\* body was invoked once for every index of the range and for no other; a
\* call with start >= end or end - start <= chunk_size submits nothing.
C32_ParallelForCoversRange ==
    pf.alg = "for" =>
        /\ pf.pc \in {"submit", "get", "returned", "threw"} /\ ~pf.inl =>
              \A i \in 0 .. (MaxIndex + 1) :
                  Cardinality(ChunksOf(i)) =
                      IF pf.start <= i /\ i < pf.end THEN 1 ELSE 0
        /\ (pf.pc # "none"
               /\ (pf.start >= pf.end \/ pf.end - pf.start <= pf.chunk)) =>
              nextId = 1
        /\ (PfEnded /\ ~pf.inl /\ pf.start < pf.end) =>
              \A t \in 1 .. NumChunks(pf) :
                  execCount[t] = 1 /\ Finished(t)

\* The value the chunked path computes when every future yields its
\* partial result.
RECURSIVE Combine(_, _, _)
Combine(a, acc, c) ==
    IF c >= NumChunks(a)
    THEN acc
    ELSE Combine(a, ReduceOp(a.op, acc, Partial(a, c)), c + 1)

\* C33: a parallel_reduce call ends by returning the partial results of
\* its chunks combined in submission order, seeded with init, whatever the
\* order in which the workers ran the chunks.
C33_ReduceIndependentOfSchedule ==
    (pf.alg = "reduce" /\ PfEnded /\ ~pf.inl /\ pf.start < pf.end) =>
        /\ pf.pc = "returned"
        /\ pf.acc = Combine(pf, pf.init, 0)

\* C34: the value parallel_reduce returns is the sequential fold of the
\* range seeded with init (plus and max are associative).
C34_ReduceEqualsSequentialFold ==
    (pf.alg = "reduce" /\ pf.pc = "returned") =>
        pf.acc = FoldRange(pf.op, pf.init, pf.start, pf.end)
====
